---- MODULE Spec2Model ----
(***************************************************************************)
(* Model of the treemap custom-chart adapter (src/treemap.ts).             *)
(*                                                                         *)
(* JavaScript values are encoded as tagged records so that TLC can compare *)
(* them:                                                                   *)
(*   cell    [t, v]   a value of a result row: t = "num" (number v),       *)
(*                    "numstr" (string holding the decimal digits of v),   *)
(*                    "text" (non-numeric string number v), "null",        *)
(*                    "undef"                                              *)
(*   number  [nan, n] a JS number: NaN, or the integer n                   *)
(*   option  [def, v] a property of visualProps: absent, or the value v    *)
(***************************************************************************)
EXTENDS Integers, Sequences, FiniteSets, TLC

VARIABLES
    userNumberFormat,   \* module-level option: the number format
    numberOfLabels,     \* module-level option: how many points get measure lines
    gradientColor0,     \* module-level options: the three gradient stops
    gradientColor50,
    gradientColor100,
    chart,              \* the chart mounted in the 'chart' element, if any
    initDone,           \* init has made its renderChart call
    callback,           \* the last callback that ran
    failedEmits,        \* the last callback: the events whose ctx.emitEvent threw
    trace,              \* the last callback: its ctx.emitEvent calls, in order,
                        \*   with "render" marking the call of render(ctx)
    threw,              \* the last callback: it threw (rejected) to the host
    pass,               \* the last callback, if a render pass: its input and
                        \*   what it did
    payload,            \* the last callback, if a click: the payload given to
                        \*   ctx.emitEvent
    returned,           \* the last callback, if a configuration callback: its
                        \*   input and result
    dmIn,               \* getDataModel checked on its own: the chart model,
    dmOut,              \*   the result,
    dmDone,             \*   and whether it has been applied
    fmtIn,              \* numberFormatter checked on its own: value and format,
    fmtOut,             \*   the result,
    fmtDone,            \*   and whether it has been applied
    cfgIn,              \* getDefaultChartConfig checked on its own: the columns,
    cfgOut,             \*   the result,
    cfgDone,            \*   and whether it has been applied
    prevChart           \* history: the chart mounted before the current one

vars == <<userNumberFormat, numberOfLabels, gradientColor0, gradientColor50,
          gradientColor100, chart, initDone, callback, failedEmits, trace,
          threw, pass, payload, returned, dmIn, dmOut, dmDone, fmtIn, fmtOut, fmtDone,
          cfgIn, cfgOut, cfgDone, prevChart>>

\* ------------------------------------------------------------------ bounds
MaxRows == 2
MaxMeasures == 2
MaxPoints == 2
MaxExponent == 12
MaxColumns == 11

\* ------------------------------------------------------------ JS encodings
Undef == [t |-> "undef", v |-> 0]
Null == [t |-> "null", v |-> 0]
NumCell(n) == [t |-> "num", v |-> n]
NumStr(n) == [t |-> "numstr", v |-> n]
Text(i) == [t |-> "text", v |-> i]
Unnamed == Text(0)

NaN == [nan |-> TRUE, n |-> 0]
Num(n) == [nan |-> FALSE, n |-> n]

\* row[i] with JavaScript's 0-based index; out of range reads undefined
At(row, i) == IF i + 1 <= Len(row) THEN row[i + 1] ELSE Undef

\* parseFloat(x): numbers and numeric strings parse, everything else is NaN
parseFloat(c) == IF c.t \in {"num", "numstr"} THEN Num(c.v) ELSE NaN

\* x.toString() for a defined, non-null x
toString(c) == IF c.t = "num" THEN NumStr(c.v) ELSE c

\* _.filter(columns, col => col.type === ColumnType.MEASURE)
RECURSIVE filterType(_, _)
filterType(cols, type) ==
    IF cols = <<>> THEN <<>>
    ELSE IF Head(cols).type = type
         THEN <<Head(cols)>> \o filterType(Tail(cols), type)
         ELSE filterType(Tail(cols), type)

\* the comparator (a, b) => b.value - a.value, as Array.prototype.sort reads
\* it: a NaN result counts as +0
compareValue(a, b) ==
    IF a.value.nan \/ b.value.nan THEN 0 ELSE b.value.n - a.value.n

\* insert x into a list already ordered by the comparator, after its equals
RECURSIVE insertSorted(_, _)
insertSorted(s, x) ==
    IF s = <<>> THEN <<x>>
    ELSE IF compareValue(Head(s), x) > 0
         THEN <<x>> \o s
         ELSE <<Head(s)>> \o insertSorted(Tail(s), x)

RECURSIVE stableSort(_)
stableSort(s) ==
    IF s = <<>> THEN <<>>
    ELSE insertSorted(stableSort(SubSeq(s, 1, Len(s) - 1)), s[Len(s)])

\* the comparator is a consistent comparison function unless a NaN value
\* (equal to everything) sits beside two values that differ
consistentComparator(s) ==
    \/ \A i \in 1..Len(s) : ~s[i].value.nan
    \/ \A i, j \in 1..Len(s) : compareValue(s[i], s[j]) = 0

permutationsOf(s) ==
    { [i \in 1..Len(s) |-> s[p[i]]] : p \in Permutations(1..Len(s)) }

\* dataModel.sort(...): a stable sort; with an inconsistent comparator the
\* order is implementation-defined
sortOutcomes(s) ==
    IF consistentComparator(s) THEN {stableSort(s)} ELSE permutationsOf(s)

\* ------------------------------------------------------------ getDataModel
EmptyDataModel ==
    [values |-> <<>>, full |-> FALSE, categoryName |-> 0, measureColumns |-> <<>>]

\* chartModel.config?.chartConfig?.[0].dimensions throws when chartConfig is
\* an empty array
dimensionsThrows(cm) == cm.config.def /\ cm.config.chartConfig = <<>>

configDimensions(cm) ==
    IF cm.config.def THEN cm.config.chartConfig[1].dimensions ELSE <<>>

\* the value of a dimension's `columns`: an array of columns, or (array =
\* FALSE) the single column object items[1] itself
ColumnArray(items) == [array |-> TRUE, items |-> items]
ColumnObject(col) == [array |-> FALSE, items |-> <<col>>]

\* dims?.[d]?.columns?.[0]: a list of at most one column; indexing a column
\* object with 0 reads undefined
firstColumn(dims, d) ==
    IF d + 1 <= Len(dims) /\ dims[d + 1].columns.array /\ dims[d + 1].columns.items # <<>>
    THEN <<dims[d + 1].columns.items[1]>> ELSE <<>>

tooltipDataOf(row, measureColumns) ==
    [i \in 1..Len(measureColumns) |->
        [columnName |-> measureColumns[i].name, value |-> At(row, i)]]

pointOfRow(row, measureColumns) ==
    [name |-> IF At(row, 0) # Undef THEN toString(At(row, 0)) ELSE Unnamed,
     value |-> parseFloat(At(row, 1)),
     colorValue |-> parseFloat(At(row, 2)),
     tooltipData |-> tooltipDataOf(row, measureColumns)]

\* null.toString() raises a TypeError inside the map callback
rowThrows(row) == At(row, 0) = Null

\* a faulty variant of missingColumns: the two conditions joined with && instead of ||
missingColumnsBoth(categoryColumn, measureColumns) ==
    categoryColumn = <<>> /\ Len(measureColumns) = 0

\* line 94: !categoryColumn || measureColumns.length === 0
missingColumns(categoryColumn, measureColumns) ==
    categoryColumn = <<>> \/ Len(measureColumns) = 0

getDataModel(cm) ==
    IF dimensionsThrows(cm) THEN {EmptyDataModel}
    ELSE IF ~cm.data.def THEN {EmptyDataModel}
    ELSE LET categoryColumn == firstColumn(configDimensions(cm), 0)
             measureColumns == filterType(cm.columns, "MEASURE")
             rows == cm.data.dataValue
         IN  IF missingColumns(categoryColumn, measureColumns)
             THEN {EmptyDataModel}
             ELSE IF \E i \in 1..Len(rows) : rowThrows(rows[i])
             THEN {EmptyDataModel}
             ELSE { [values |-> sorted,
                     full |-> TRUE,
                     categoryName |-> IF categoryColumn = <<>> THEN 0
                                      ELSE categoryColumn[1].name,
                     measureColumns |->
                         [i \in 1..Len(measureColumns) |-> measureColumns[i].name]]
                    : sorted \in sortOutcomes(
                          [i \in 1..Len(rows) |-> pointOfRow(rows[i], measureColumns)]) }

\* --------------------------------------------------------- numberFormatter
\* A number handed to the formatter is sign * m * 10^e, so that trillions
\* fit TLC's integers.  Strings are sequences of one-character strings.
Val(neg, m, e) == [neg |-> neg, m |-> m, e |-> e]

RECURSIVE Pow10(_)
Pow10(k) == IF k <= 0 THEN 1 ELSE 10 * Pow10(k - 1)

Digit(d) == <<"0", "1", "2", "3", "4", "5", "6", "7", "8", "9">>[d + 1]

\* String(n) for an integer n >= 0
RECURSIVE digitsOf(_)
digitsOf(n) == IF n < 10 THEN <<Digit(n)>> ELSE digitsOf(n \div 10) \o <<Digit(n % 10)>>

\* the last k digits of n, zero padded
RECURSIVE padded(_, _)
padded(n, k) == IF k = 0 THEN <<>> ELSE padded(n \div 10, k - 1) \o <<Digit(n % 10)>>

includes(str, ch) == \E i \in 1..Len(str) : str[i] = ch

indexOf(str, ch) == IF includes(str, ch)
                    THEN CHOOSE i \in 1..Len(str) : str[i] = ch /\ \A j \in 1..(i - 1) : str[j] # ch
                    ELSE 0

\* str.replace(from, to) with string arguments: the first occurrence only
replace(str, from, to) ==
    IF includes(str, from)
    THEN [i \in 1..Len(str) |-> IF i = indexOf(str, from) THEN to ELSE str[i]]
    ELSE str

\* Math.abs(value) >= 10^p
absAtLeast(x, p) == x.m > 0 /\ (x.e >= p \/ (p - x.e <= 9 /\ x.m >= Pow10(p - x.e)))

\* numeral: the power of ten of the abbreviation chosen for value
abbreviationPower(x) ==
    IF absAtLeast(x, 12) THEN 12
    ELSE IF absAtLeast(x, 9) THEN 9
    ELSE IF absAtLeast(x, 6) THEN 6
    ELSE IF absAtLeast(x, 3) THEN 3
    ELSE 0

\* locale.abbreviations
abbreviationLetter(p) ==
    CASE p = 12 -> <<"t">> [] p = 9 -> <<"b">> [] p = 6 -> <<"m">> [] p = 3 -> <<"k">>
      [] OTHER -> <<>>

\* format.split('.')[1].length: the number of decimals the format asks for
precisionOf(format) ==
    IF includes(format, ".") THEN Len(format) - indexOf(format, ".") ELSE 0

\* Math.round(value / 10^p * 10^d): round half up, in units of 10^-d
roundedUnits(x, p, d) ==
    LET k == x.e + d - p
        s == IF x.neg THEN 0 - 1 ELSE 1
    IN  IF k >= 0 THEN s * x.m * Pow10(k)
        ELSE (2 * s * x.m + Pow10(0 - k)) \div (2 * Pow10(0 - k))

\* numeral(value).format(format) for a format of zeros, an optional decimal
\* part and a trailing 'a'
numeralFormat(x, format) ==
    LET abbreviate == includes(format, "a")
        plain == IF abbreviate THEN SubSeq(format, 1, indexOf(format, "a") - 1) ELSE format
        p == IF abbreviate THEN abbreviationPower(x) ELSE 0
        d == precisionOf(plain)
        r == roundedUnits(x, p, d)
        neg == r < 0
        mag == IF neg THEN 0 - r ELSE r
        int == mag \div Pow10(d)
        \* "check abbreviation again after rounding"
        bump == p \in {3, 6, 9} /\ ~neg /\ int >= 1000
        intStr == IF bump THEN digitsOf(int \div 1000) ELSE digitsOf(int)
        decimal == IF d > 0 THEN <<".">> \o padded(mag, d) ELSE <<>>
        abbr == abbreviationLetter(IF bump THEN p + 3 ELSE p)
    IN  (IF neg THEN <<"-">> ELSE <<>>) \o intStr \o decimal \o abbr

numberFormatter(value, format) ==
    LET abbreviationFormat == format \o <<"a">>
        formattedValue == numeralFormat(value, abbreviationFormat)
    IN  replace(replace(replace(formattedValue, "k", "K"), "m", "M"), "b", "B")

\* ------------------------------------------------------------------ render
\* an absent property of visualProps, and a supplied one
Absent(empty) == [def |-> FALSE, v |-> empty]
Given(v) == [def |-> TRUE, v |-> v]

\* supplied || current: a supplied value that is falsy (empty string, 0)
\* gives way to the current one
orCurrent(option, falsy, current) ==
    IF option.def /\ option.v # falsy THEN option.v ELSE current

Options(fmt, labels, c0, c50, c100) ==
    [userNumberFormat |-> fmt, numberOfLabels |-> labels, gradientColor0 |-> c0,
     gradientColor50 |-> c50, gradientColor100 |-> c100]

DefaultOptions == Options(<<"0", ".", "0">>, 1, "#F0F0F0", "#A8D5BA", "#4F6D7A")

CurrentOptions == Options(userNumberFormat, numberOfLabels, gradientColor0,
                          gradientColor50, gradientColor100)

\* lines 167-171
readVisualProps(visualProps, o) ==
    Options(orCurrent(visualProps.numberFormat, <<>>, o.userNumberFormat),
            orCurrent(visualProps.numOfLabels, 0, o.numberOfLabels),
            orCurrent(visualProps.gradientColor0, "", o.gradientColor0),
            orCurrent(visualProps.gradientColor50, "", o.gradientColor50),
            orCurrent(visualProps.gradientColor100, "", o.gradientColor100))

\* chartModel.config?.chartConfig?.[0]?.dimensions?.[d]?.columns?.[0]
safeFirstColumn(cm, d) ==
    IF cm.config.def /\ cm.config.chartConfig # <<>>
    THEN firstColumn(cm.config.chartConfig[1].dimensions, d)
    ELSE <<>>

NoChart == [mounted |-> FALSE]

\* series[0].data: a copy of every point of the data model
seriesData(values) ==
    [i \in 1..Len(values) |-> [values[i] EXCEPT !.colorValue = values[i].colorValue]]

\* colorAxis: the stops are at 0, 50 and 100 percent
colorAxisOptions(o) ==
    [minColor |-> o.gradientColor0,
     maxColor |-> o.gradientColor100,
     stops |-> << <<0, o.gradientColor0>>, <<50, o.gradientColor50>>,
                  <<100, o.gradientColor100>> >>]

\* legend.title.text: the name of the color-axis column, or undefined
legendTitle(cm) ==
    IF safeFirstColumn(cm, 2) = <<>> THEN <<>> ELSE <<safeFirstColumn(cm, 2)[1].name>>

\* a faulty variant of chartOptions: the series is also given the first gradient color
chartOptionsSeriesColor(cm, dataModel, o) ==
    [mounted |-> TRUE,
     renderTo |-> "chart",
     series |-> [type |-> "treemap", color |-> o.gradientColor0,
                 data |-> seriesData(dataModel.values)],
     colorAxis |-> colorAxisOptions(o),
     legendTitle |-> legendTitle(cm),
     dataModel |-> [categoryName |-> dataModel.categoryName,
                    measureColumns |-> dataModel.measureColumns],
     categoryColumn |-> safeFirstColumn(cm, 0)[1].id,
     measureColumn |-> safeFirstColumn(cm, 1)[1].id,
     config |-> cm.config]

\* the configuration object handed to Highcharts.chart, with what its
\* callbacks close over (dataModel, categoryColumn, measureColumn) and, as
\* history, the configuration it was built from
chartOptions(cm, dataModel, o) ==
    [mounted |-> TRUE,
     renderTo |-> "chart",
     series |-> [type |-> "treemap", data |-> seriesData(dataModel.values)],
     colorAxis |-> colorAxisOptions(o),
     legendTitle |-> legendTitle(cm),
     dataModel |-> [categoryName |-> dataModel.categoryName,
                    measureColumns |-> dataModel.measureColumns],
     categoryColumn |-> safeFirstColumn(cm, 0)[1].id,
     measureColumn |-> safeFirstColumn(cm, 1)[1].id,
     config |-> cm.config]

\* what one call of render(ctx) does, given the chart model the host returns,
\* the options before the call and whether Highcharts.chart throws:
\*   options      the module-level options after the call
\*   values       dataModel.values
\*   readProps    lines 167-171 were executed
\*   chartCalled  Highcharts.chart was called
\*   mounted      the chart it mounted, or NoChart
renderOutcome(o, values, readProps, chartCalled, mounted) ==
    [options |-> o, values |-> values, readProps |-> readProps,
     chartCalled |-> chartCalled, mounted |-> mounted]

\* a faulty variant of render: the visual properties are read into the
\* module-level options before the data model is looked at
renderReadsPropsFirst(cm, o, chartThrows) ==
    IF ~cm.def THEN {renderOutcome(o, <<>>, FALSE, FALSE, NoChart)}
    ELSE IF ~cm.visualProps.def THEN {renderOutcome(o, <<>>, FALSE, FALSE, NoChart)}
    ELSE { LET o2 == readVisualProps(cm.visualProps, o)
           IN  IF Len(dataModel.values) = 0
                  \/ safeFirstColumn(cm, 0) = <<>> \/ safeFirstColumn(cm, 1) = <<>>
               THEN renderOutcome(o2, dataModel.values, TRUE, FALSE, NoChart)
               ELSE IF chartThrows
               THEN renderOutcome(o2, dataModel.values, TRUE, TRUE, NoChart)
               ELSE renderOutcome(o2, dataModel.values, TRUE, TRUE,
                                  chartOptions(cm, dataModel, o2))
           : dataModel \in getDataModel(cm) }

render(cm, o, chartThrows) ==
    IF ~cm.def THEN {renderOutcome(o, <<>>, FALSE, FALSE, NoChart)}
    ELSE { IF Len(dataModel.values) = 0
           THEN renderOutcome(o, dataModel.values, FALSE, FALSE, NoChart)
           ELSE IF ~cm.visualProps.def
           THEN renderOutcome(o, dataModel.values, FALSE, FALSE, NoChart)
           ELSE LET o2 == readVisualProps(cm.visualProps, o)
                IN  IF safeFirstColumn(cm, 0) = <<>> \/ safeFirstColumn(cm, 1) = <<>>
                    THEN renderOutcome(o2, dataModel.values, TRUE, FALSE, NoChart)
                    ELSE IF chartThrows
                    THEN renderOutcome(o2, dataModel.values, TRUE, TRUE, NoChart)
                    ELSE renderOutcome(o2, dataModel.values, TRUE, TRUE,
                                       chartOptions(cm, dataModel, o2))
           : dataModel \in getDataModel(cm) }

\* -------------------------------------------------------------- renderChart
\* which calls fail: ctx.emitEvent for each lifecycle event, Highcharts.chart
Faults == [start : BOOLEAN, error : BOOLEAN, complete : BOOLEAN, chart : BOOLEAN]
NoFaults == [start |-> FALSE, error |-> FALSE, complete |-> FALSE, chart |-> FALSE]

NoPass == [ran |-> FALSE]
NoPayload == [clicked |-> FALSE]
NoReturn == [op |-> "none"]

\* a faulty variant of lifecycleTrace: RenderComplete emitted at the end of the try
\* block instead of in a finally block
lifecycleTraceNoFinally(startThrows) ==
    IF startThrows THEN <<"RenderStart", "RenderError">>
    ELSE <<"RenderStart", "render", "RenderComplete">>

\* the calls renderChart makes, in order:
\* try { emit(RenderStart); render(ctx) } catch { emit(RenderError) }
\* finally { emit(RenderComplete) }
lifecycleTrace(startThrows) ==
    IF startThrows THEN <<"RenderStart", "RenderError", "RenderComplete">>
    ELSE <<"RenderStart", "render", "RenderComplete">>

\* the emitEvent calls that threw
failedOf(f) ==
    (IF f.start THEN {"RenderStart"} ELSE {})
    \cup (IF f.start /\ f.error THEN {"RenderError"} ELSE {})
    \cup (IF f.complete THEN {"RenderComplete"} ELSE {})

renderChart(cm, f) ==
    /\ callback' = "renderChart"
    /\ trace' = lifecycleTrace(f.start)
    /\ failedEmits' = failedOf(f)
    /\ IF f.start
       THEN \* emitEvent(RenderStart) throws: render is skipped; an exception
            \* from the catch or the finally block leaves renderChart
            /\ threw' = (f.error \/ f.complete)
            /\ pass' = NoPass
            /\ UNCHANGED <<userNumberFormat, numberOfLabels, gradientColor0,
                           gradientColor50, gradientColor100, chart>>
       ELSE \E out \in render(cm, CurrentOptions, f.chart) :
            /\ threw' = f.complete
            /\ userNumberFormat' = out.options.userNumberFormat
            /\ numberOfLabels' = out.options.numberOfLabels
            /\ gradientColor0' = out.options.gradientColor0
            /\ gradientColor50' = out.options.gradientColor50
            /\ gradientColor100' = out.options.gradientColor100
            /\ chart' = IF out.mounted.mounted THEN out.mounted ELSE chart
            /\ pass' = [ran |-> TRUE, model |-> cm, before |-> CurrentOptions,
                        values |-> out.values, readProps |-> out.readProps,
                        chartCalled |-> out.chartCalled, chartThrew |-> f.chart,
                        mounted |-> out.mounted.mounted]

\* ------------------------------------------------------ point click handler
getParsedEvent(evt) ==
    [clientX |-> IF evt.clientX # 0 THEN evt.clientX ELSE evt.point.pageX,
     clientY |-> IF evt.clientY # 0 THEN evt.clientY ELSE evt.point.pageY]

\* a faulty variant of clickedTuple: both entries carry the category column's id
clickedTupleOneColumn(ch, i) ==
    << [columnId |-> ch.categoryColumn, value |-> ch.series.data[i].name],
       [columnId |-> ch.categoryColumn, value |-> ch.series.data[i].value] >>

\* clickedPoint.tuple for the point at position i of the chart's data
clickedTuple(ch, i) ==
    << [columnId |-> ch.categoryColumn, value |-> ch.series.data[i].name],
       [columnId |-> ch.measureColumn, value |-> ch.series.data[i].value] >>

click(i, e, emitThrows) ==
    /\ callback' = "click"
    /\ trace' = <<"OpenContextMenu">>
    /\ failedEmits' = IF emitThrows THEN {"OpenContextMenu"} ELSE {}
    /\ threw' = emitThrows
    /\ payload' = [clicked |-> TRUE,
                   index |-> i,
                   event |-> getParsedEvent(e),
                   clickedPoint |-> [tuple |-> clickedTuple(chart, i)],
                   customActions |-> <<"custom-action-1", "download-chart">>]

\* -------------------------------------------------- getDefaultChartConfig
\* arr.slice(from, to) with JavaScript's 0-based, end-exclusive indices
slice(arr, from, to) ==
    SubSeq(arr, from + 1, IF to < Len(arr) THEN to ELSE Len(arr))

\* a faulty variant of defaultChartConfigThrows: only the measure columns are checked
defaultChartConfigThrowsNoMeasure(columns) ==
    Len(filterType(columns, "MEASURE")) = 0

defaultChartConfigThrows(columns) ==
    \/ Len(filterType(columns, "ATTRIBUTE")) = 0
    \/ Len(filterType(columns, "MEASURE")) = 0

getDefaultChartConfig(columns) ==
    LET attributeColumns == filterType(columns, "ATTRIBUTE")
        measureColumns == filterType(columns, "MEASURE")
    IN  << [key |-> "default",
            dimensions |-> <<
              [key |-> "category",
               columns |-> IF Len(attributeColumns) > 0
                           THEN ColumnObject(attributeColumns[1]) ELSE ColumnArray(<<>>)],
              [key |-> "measure",
               columns |-> IF Len(measureColumns) > 0
                           THEN ColumnObject(measureColumns[1]) ELSE ColumnArray(<<>>)],
              [key |-> "color axis",
               columns |-> IF Len(measureColumns) > 1
                           THEN ColumnObject(measureColumns[2]) ELSE ColumnArray(<<>>)],
              [key |-> "Labels",
               columns |-> IF Len(measureColumns) > 2
                           THEN ColumnArray(slice(measureColumns, 2, 4)) ELSE ColumnArray(<<>>)],
              [key |-> "Tooltip columns",
               columns |-> IF Len(measureColumns) > 4
                           THEN ColumnArray(slice(measureColumns, 4, Len(measureColumns)))
                           ELSE ColumnArray(<<>>)] >>] >>

\* ----------------------------------------------- getQueriesFromChartConfig
\* [...acc.queryColumns, ...dimension.columns] needs an iterable
RECURSIVE spreadColumns(_)
spreadColumns(dimensions) ==
    IF dimensions = <<>> THEN <<>>
    ELSE spreadColumns(SubSeq(dimensions, 1, Len(dimensions) - 1))
         \o (IF dimensions[Len(dimensions)].columns.array
             THEN dimensions[Len(dimensions)].columns.items ELSE <<>>)

notIterable(chartConfig) ==
    \E c \in 1..Len(chartConfig) : \E d \in 1..Len(chartConfig[c].dimensions) :
        ~chartConfig[c].dimensions[d].columns.array

getQueriesFromChartConfig(chartConfig) ==
    [c \in 1..Len(chartConfig) |->
        [queryColumns |-> spreadColumns(chartConfig[c].dimensions)]]

\* ---------------------------------------------- chartConfigEditorDefinition
\* the column sections of the editor, each with its maxColumnCount where the
\* section states one
chartConfigEditorDefinition ==
    << [key |-> "column",
        columnSections |-> <<
          [key |-> "category", maxColumnCount |-> <<1>>],
          [key |-> "measure", maxColumnCount |-> <<>>],
          [key |-> "coloraxis", maxColumnCount |-> <<>>],
          [key |-> "Labels", maxColumnCount |-> <<2>>],
          [key |-> "tooltips", maxColumnCount |-> <<5>>] >>] >>

\* ------------------------------------------------------- the host's inputs
Column(id, type) == [id |-> id, name |-> 100 + id, type |-> type]

\* na attribute columns followed by nm measure columns
ColumnsOf(na, nm) ==
    [i \in 1..(na + nm) |-> Column(i, IF i <= na THEN "ATTRIBUTE" ELSE "MEASURE")]

NoConfig == [def |-> FALSE, chartConfig |-> <<>>]
EmptyChartConfig == [def |-> TRUE, chartConfig |-> <<>>]
ConfigOf(dimensions) ==
    [def |-> TRUE, chartConfig |-> <<[key |-> "default", dimensions |-> dimensions]>>]

\* the dimensions the host configures over `columns`: category, measure and
\* color axis, each filled when asked for and when such a column exists
DimensionsOver(columns, cat, meas, color) ==
    LET a == filterType(columns, "ATTRIBUTE")
        m == filterType(columns, "MEASURE")
    IN  << [key |-> "category",
            columns |-> ColumnArray(IF cat /\ Len(a) > 0 THEN <<a[1]>> ELSE <<>>)],
           [key |-> "measure",
            columns |-> ColumnArray(IF meas /\ Len(m) > 0 THEN <<m[1]>> ELSE <<>>)],
           [key |-> "color axis",
            columns |-> ColumnArray(IF color /\ Len(m) > 1 THEN <<m[2]>> ELSE <<>>)] >>

ConfigsOver(columns) ==
    {NoConfig, EmptyChartConfig, ConfigOf(<<>>)}
    \cup { ConfigOf(DimensionsOver(columns, cat, meas, TRUE)) : cat, meas \in BOOLEAN }
    \cup (IF defaultChartConfigThrows(columns) THEN {}
          ELSE {[def |-> TRUE, chartConfig |-> getDefaultChartConfig(columns)]})

NoData == [def |-> FALSE, dataValue |-> <<>>]
DataOf(rows) == [def |-> TRUE, dataValue |-> rows]

NoVisualProps == [def |-> FALSE]
VisualProps(fmt, labels, c0, c50, c100) ==
    [def |-> TRUE, numberFormat |-> fmt, numOfLabels |-> labels,
     gradientColor0 |-> c0, gradientColor50 |-> c50, gradientColor100 |-> c100]

UndefinedModel == [def |-> FALSE]
ChartModel(columns, config, data, visualProps) ==
    [def |-> TRUE, columns |-> columns, config |-> config, data |-> data,
     visualProps |-> visualProps]

\* the k-th row of the result sets used for rendering: category, measure,
\* color measure
PointRow(k) == <<Text(k), NumCell(1 + (k % 3)), NumCell(4 - k)>>

RenderData == {NoData} \cup { DataOf([k \in 1..n |-> PointRow(k)]) : n \in 0..MaxPoints }

FormatChoices == {Absent(<<>>), Given(<<"0", ".", "0", "0">>)}
LabelChoices == {Absent(0), Given(0), Given(2)}
ColorChoices == {Absent(""), Given("#111111")}

RenderVisualProps ==
    {NoVisualProps}
    \cup { VisualProps(fmt, labels, c, c, c) :
             fmt \in FormatChoices, labels \in LabelChoices, c \in ColorChoices }

BaseColumns == ColumnsOf(1, 2)
BaseConfig == ConfigOf(DimensionsOver(BaseColumns, TRUE, TRUE, TRUE))
BaseModel ==
    ChartModel(BaseColumns, BaseConfig, DataOf([k \in 1..MaxPoints |-> PointRow(k)]),
               VisualProps(Absent(<<>>), Absent(0), Absent(""), Absent(""), Absent("")))

\* chart models the host returns from ctx.getChartModel(): every result set
\* with every visual configuration over the full configuration, and every
\* column set with every configuration shape over the full result set
RenderModels ==
    {UndefinedModel}
    \cup { ChartModel(BaseColumns, BaseConfig, data, vp) :
             data \in RenderData, vp \in RenderVisualProps }
    \cup UNION { { ChartModel(ColumnsOf(1, nm), config, BaseModel.data, BaseModel.visualProps) :
                     config \in ConfigsOver(ColumnsOf(1, nm)) } : nm \in 0..MaxMeasures }

\* a render call: the chart model, and the calls that fail during it
RenderCalls ==
    { <<cm, NoFaults>> : cm \in RenderModels }
    \cup ({BaseModel, UndefinedModel} \X Faults)

ClickEvents ==
    { [clientX |-> x, clientY |-> x, point |-> [pageX |-> 7, pageY |-> 8]] : x \in {0, 3} }

ColumnSets == { ColumnsOf(na, nm) : na \in 0..1, nm \in 0..(MaxMeasures + 1) }

\* configurations the host asks queries for: the default configurations as
\* returned, and configurations whose dimensions hold arrays
QueryConfigs ==
    { getDefaultChartConfig(columns) : columns \in { c \in ColumnSets : ~defaultChartConfigThrows(c) } }
    \cup { <<>> }
    \cup { ConfigOf(DimensionsOver(BaseColumns, cat, TRUE, color)).chartConfig : cat, color \in BOOLEAN }

\* ---------------------------------------------------------------- actions
IdleData == /\ dmIn = UndefinedModel /\ dmOut = EmptyDataModel /\ dmDone = FALSE
IdleFormat == /\ fmtIn = <<Val(FALSE, 0, 0), <<>>>> /\ fmtOut = <<>> /\ fmtDone = FALSE

InitProgram ==
    /\ userNumberFormat = <<"0", ".", "0">>
    /\ numberOfLabels = 1
    /\ gradientColor0 = "#F0F0F0"
    /\ gradientColor50 = "#A8D5BA"
    /\ gradientColor100 = "#4F6D7A"
    /\ chart = NoChart
    /\ initDone = FALSE
    /\ callback = "none"
    /\ failedEmits = {}
    /\ trace = <<>>
    /\ threw = FALSE
    /\ pass = NoPass
    /\ payload = NoPayload
    /\ returned = NoReturn
    /\ prevChart = NoChart

IdleConfig == /\ cfgIn = <<>> /\ cfgOut = NoReturn /\ cfgDone = FALSE

Init == InitProgram /\ IdleData /\ IdleFormat /\ IdleConfig

aside == <<dmIn, dmOut, dmDone, fmtIn, fmtOut, fmtDone, cfgIn, cfgOut, cfgDone>>

\* init(): after getChartContext resolves, the first renderChart(ctx)
InitRender ==
    /\ ~initDone
    /\ initDone' = TRUE
    /\ \E call \in RenderCalls : renderChart(call[1], call[2])
    /\ payload' = NoPayload
    /\ returned' = NoReturn
    /\ UNCHANGED <<prevChart, aside>>

\* the host invokes the registered renderChart callback
HostRender ==
    /\ initDone
    /\ \E call \in RenderCalls : renderChart(call[1], call[2])
    /\ payload' = NoPayload
    /\ returned' = NoReturn
    /\ UNCHANGED <<initDone, prevChart, aside>>

\* the user clicks a point of the mounted chart
PointClick ==
    /\ chart.mounted
    /\ \E i \in 1..Len(chart.series.data), e \in ClickEvents, emitThrows \in BOOLEAN :
          click(i, e, emitThrows)
    /\ returned' = NoReturn
    /\ pass' = NoPass
    /\ UNCHANGED <<userNumberFormat, numberOfLabels, gradientColor0, gradientColor50,
                   gradientColor100, chart, initDone, prevChart, aside>>

\* the host invokes the registered getDefaultChartConfig callback
HostDefaultChartConfig ==
    /\ \E columns \in ColumnSets :
          returned' = [op |-> "getDefaultChartConfig", input |-> columns,
                       threw |-> defaultChartConfigThrows(columns),
                       value |-> IF defaultChartConfigThrows(columns) THEN <<>>
                                 ELSE getDefaultChartConfig(columns)]
    /\ threw' = returned'.threw
    /\ callback' = returned'.op
    /\ failedEmits' = {}
    /\ trace' = <<>>
    /\ payload' = NoPayload
    /\ pass' = NoPass
    /\ UNCHANGED <<userNumberFormat, numberOfLabels, gradientColor0, gradientColor50,
                   gradientColor100, chart, initDone, prevChart, aside>>

\* the host invokes the registered getQueriesFromChartConfig callback; where
\* a dimension's columns is not iterable the spread throws a TypeError, or,
\* compiled down to array concatenation, contributes nothing
HostQueries ==
    /\ \E chartConfig \in QueryConfigs, native \in BOOLEAN :
          returned' = [op |-> "getQueriesFromChartConfig", input |-> chartConfig,
                       threw |-> (native /\ notIterable(chartConfig)),
                       value |-> IF native /\ notIterable(chartConfig) THEN <<>>
                                 ELSE getQueriesFromChartConfig(chartConfig)]
    /\ threw' = returned'.threw
    /\ callback' = returned'.op
    /\ failedEmits' = {}
    /\ trace' = <<>>
    /\ payload' = NoPayload
    /\ pass' = NoPass
    /\ UNCHANGED <<userNumberFormat, numberOfLabels, gradientColor0, gradientColor50,
                   gradientColor100, chart, initDone, prevChart, aside>>

Next == InitRender \/ HostRender \/ PointClick \/ HostDefaultChartConfig \/ HostQueries

Spec == Init /\ [][Next]_vars

program == <<userNumberFormat, numberOfLabels, gradientColor0, gradientColor50,
             gradientColor100, chart, initDone, callback, failedEmits, trace,
             threw, pass, payload, returned, prevChart>>

\* ------------------------------------------- getDataModel, checked on its own
CategoryCells == {Text(1), NumCell(7), Undef, Null}
MeasureCells == {NumCell(1), NumStr(3), Null}
ColorCells == {NumCell(5), Text(9)}

\* the rows the host can deliver for one category and nm measure columns
RowsFor(nm) ==
    { row \in [1..(1 + nm) -> CategoryCells \cup MeasureCells \cup ColorCells] :
        /\ row[1] \in CategoryCells
        /\ nm >= 1 => row[2] \in MeasureCells
        /\ nm >= 2 => row[3] \in ColorCells
        /\ \A i \in 4..(1 + nm) : row[i] = NumCell(5) }

\* a chart model with one category column, nm measure columns and the given
\* rows, with or without a configured category
DataModel(nm, rows, cat) ==
    ChartModel(ColumnsOf(1, nm),
               ConfigOf(DimensionsOver(ColumnsOf(1, nm), cat, TRUE, TRUE)),
               DataOf(rows), BaseModel.visualProps)

InitData ==
    /\ InitProgram
    /\ \E nm \in 0..MaxMeasures, n \in 0..MaxRows, cat \in BOOLEAN :
          \E rows \in [1..n -> RowsFor(nm)] : dmIn = DataModel(nm, rows, cat)
    /\ dmOut = EmptyDataModel
    /\ dmDone = FALSE
    /\ IdleFormat
    /\ IdleConfig

ApplyGetDataModel ==
    /\ ~dmDone
    /\ dmDone' = TRUE
    /\ dmOut' \in getDataModel(dmIn)
    /\ UNCHANGED <<program, dmIn, fmtIn, fmtOut, fmtDone, cfgIn, cfgOut, cfgDone>>

SpecData == InitData /\ [][ApplyGetDataModel]_vars

\* ---------------------------------------- numberFormatter, checked on its own
Mantissas == {0, 1, 2, 15, 999, 1250, 999949, 999950}
FormatValues ==
    { x \in { Val(neg, m, e) : neg \in BOOLEAN, m \in Mantissas, e \in 0..MaxExponent } :
        x.m = 0 => (x.e = 0 /\ ~x.neg) }
Formats == { <<"0">>, <<"0", ".", "0">>, <<"0", ".", "0", "0">> }

InitFormat ==
    /\ InitProgram
    /\ IdleData
    /\ IdleConfig
    /\ fmtIn \in FormatValues \X Formats
    /\ fmtOut = <<>>
    /\ fmtDone = FALSE

ApplyNumberFormatter ==
    /\ ~fmtDone
    /\ fmtDone' = TRUE
    /\ fmtOut' = numberFormatter(fmtIn[1], fmtIn[2])
    /\ UNCHANGED <<program, fmtIn, dmIn, dmOut, dmDone, cfgIn, cfgOut, cfgDone>>

SpecFormat == InitFormat /\ [][ApplyNumberFormatter]_vars

\* ---------------------------------- getDefaultChartConfig, checked on its own
\* chartModel.columns: up to MaxColumns attribute and measure columns in any
\* order, with ids 1, 2, ... in the order the host lists them
ColumnsTyped(types) == [i \in 1..Len(types) |-> Column(i, types[i])]

InitConfig ==
    /\ InitProgram
    /\ IdleData
    /\ IdleFormat
    /\ \E n \in 0..MaxColumns :
          \E types \in [1..n -> {"ATTRIBUTE", "MEASURE"}] : cfgIn = ColumnsTyped(types)
    /\ cfgOut = NoReturn
    /\ cfgDone = FALSE

ApplyGetDefaultChartConfig ==
    /\ ~cfgDone
    /\ cfgDone' = TRUE
    /\ cfgOut' = [op |-> "getDefaultChartConfig", input |-> cfgIn,
                  threw |-> defaultChartConfigThrows(cfgIn),
                  value |-> IF defaultChartConfigThrows(cfgIn) THEN <<>>
                            ELSE getDefaultChartConfig(cfgIn)]
    /\ UNCHANGED <<program, cfgIn, dmIn, dmOut, dmDone, fmtIn, fmtOut, fmtDone>>

SpecConfig == InitConfig /\ [][ApplyGetDefaultChartConfig]_vars

\* ------------------------- render passes that differ in the gradient colors
GradientChoices == ColorChoices \cup {Given("#222222")}

GradientModels ==
    { ChartModel(BaseColumns, BaseConfig, DataOf([k \in 1..n |-> PointRow(k)]),
                 VisualProps(Absent(<<>>), labels, c0, c50, c100)) :
        n \in 1..MaxPoints, labels \in {Absent(0)},
        c0 \in GradientChoices, c50 \in ColorChoices, c100 \in ColorChoices }

\* a render pass that mounts a chart; the chart it replaces and the chart
\* model that chart was rendered from are kept as history
GradientRender ==
    /\ \E cm \in GradientModels : renderChart(cm, NoFaults)
    /\ prevChart' = IF chart.mounted
                    THEN [mounted |-> TRUE, chart |-> chart, model |-> pass.model]
                    ELSE NoChart
    /\ initDone' = TRUE
    /\ UNCHANGED <<payload, returned, aside>>

SpecGradient == Init /\ [][GradientRender]_vars

\* ------------------------------------------------- data label formatter
\* numeral(x) for a row value: numbers and numeric strings keep their value,
\* anything else formats as zero
numeralValue(c) ==
    IF c.t \in {"num", "numstr"}
    THEN Val(c.v < 0, IF c.v < 0 THEN 0 - c.v ELSE c.v, 0)
    ELSE Val(FALSE, 0, 0)

\* dataLabels.formatter for the point at position i (this.point.index =
\* i - 1), reading the module-level options when the label is drawn: the
\* point's name, then one line per tooltipData entry for the first
\* numberOfLabels points
dataLabel(ch, i, labels, format) ==
    [name |-> ch.series.data[i].name,
     lines |-> IF i - 1 < labels
               THEN [j \in 1..Len(ch.series.data[i].tooltipData) |->
                       LET tooltipCol == ch.series.data[i].tooltipData[j]
                       IN  [columnName |-> tooltipCol.columnName,
                            formatted |-> \E m \in 1..Len(ch.dataModel.measureColumns) :
                                            ch.dataModel.measureColumns[m] = tooltipCol.columnName,
                            text |-> numberFormatter(numeralValue(tooltipCol.value), format)]]
               ELSE <<>>]

\* ======================================================================
\* Properties
\* ======================================================================

\* a >= b on JS numbers: false as soon as one side is NaN
GreaterOrEqual(a, b) == ~a.nan /\ ~b.nan /\ a.n >= b.n

HasCategoryColumn(cm) ==
    /\ cm.config.def
    /\ cm.config.chartConfig # <<>>
    /\ Len(cm.config.chartConfig[1].dimensions) >= 1
    /\ cm.config.chartConfig[1].dimensions[1].columns.array
    /\ cm.config.chartConfig[1].dimensions[1].columns.items # <<>>

HasMeasureColumn(cm) == \E i \in 1..Len(cm.columns) : cm.columns[i].type = "MEASURE"

MeasureCount(cm) == Cardinality({ i \in 1..Len(cm.columns) : cm.columns[i].type = "MEASURE" })

\* the point the claims expect for a row
ExpectedName(row) == IF row[1] = Undef THEN Unnamed ELSE toString(row[1])

\* C1: for every chart model with a category column and at least one measure
\* column, the values returned by getDataModel are sorted descending by the
\* first measure (p.value >= q.value for adjacent p before q) and hold one
\* point per input row, none dropped or duplicated.
C1_SortedPermutation ==
    (dmDone /\ HasCategoryColumn(dmIn) /\ HasMeasureColumn(dmIn)) =>
        /\ \A i \in 1..(Len(dmOut.values) - 1) :
              GreaterOrEqual(dmOut.values[i].value, dmOut.values[i + 1].value)
        /\ Len(dmOut.values) = Len(dmIn.data.dataValue)
        /\ \E p \in Permutations(1..Len(dmOut.values)) :
              \A i \in 1..Len(dmOut.values) :
                 /\ dmOut.values[i].name = ExpectedName(dmIn.data.dataValue[p[i]])
                 /\ dmOut.values[i].value = parseFloat(At(dmIn.data.dataValue[p[i]], 1))

\* C2: whenever the chart model has no category column in its first
\* configured dimension, or no column of type MEASURE, or no row data, the
\* render pass gets an empty point list from getDataModel and returns
\* without calling Highcharts.chart.
C2_MissingColumnsNoMount ==
    (callback = "renderChart" /\ pass.ran /\ pass.model.def
       /\ (~HasCategoryColumn(pass.model) \/ ~HasMeasureColumn(pass.model)
           \/ ~pass.model.data.def)) =>
        (pass.values = <<>> /\ ~pass.chartCalled /\ ~pass.mounted)

\* C2 witness: a pass over a model with data and measures but no category
\* column, made while an earlier chart is mounted.
C2_Witness ==
    /\ callback = "renderChart" /\ pass.ran /\ pass.model.def
    /\ pass.model.data.def /\ pass.model.data.dataValue # <<>>
    /\ HasMeasureColumn(pass.model) /\ ~HasCategoryColumn(pass.model)
    /\ pass.values = <<>> /\ ~pass.chartCalled
    /\ chart.mounted

Count(seq, x) == Cardinality({ i \in 1..Len(seq) : seq[i] = x })

\* C3: every renderChart invocation (init's included) calls emitEvent with
\* RenderStart exactly once and first, before render runs, with
\* RenderComplete exactly once and last, after render, and with RenderError,
\* if at all, strictly between the two.
C3_LifecycleOrder ==
    callback = "renderChart" =>
        /\ Len(trace) >= 2
        /\ trace[1] = "RenderStart" /\ Count(trace, "RenderStart") = 1
        /\ trace[Len(trace)] = "RenderComplete" /\ Count(trace, "RenderComplete") = 1
        /\ Count(trace, "render") <= 1
        /\ \A i \in 1..Len(trace) :
              trace[i] \in {"render", "RenderError"} => (1 < i /\ i < Len(trace))
        /\ pass.ran => Count(trace, "render") = 1

\* C3 witness: an invocation that emitted RenderError, after init's own.
C3_Witness ==
    /\ callback = "renderChart" /\ initDone
    /\ Count(trace, "RenderError") = 1
    /\ chart.mounted

\* what makes a render pass fail
FailedPass ==
    \/ ~pass.model.def
    \/ ~pass.model.data.def
    \/ ~HasCategoryColumn(pass.model)
    \/ ~HasMeasureColumn(pass.model)
    \/ ~pass.model.visualProps.def
    \/ pass.chartThrew

\* every dimension of every configuration holds an array of columns
ArraysOnly(chartConfig) ==
    \A c \in 1..Len(chartConfig) : \A d \in 1..Len(chartConfig[c].dimensions) :
        chartConfig[c].dimensions[d].columns.array

\* C4 as claimed: every callback registered with the host returns normally
\* for every input, and a failed render pass ends with no chart mounted or
\* with RenderError emitted.  (Left aside here: calls during which
\* ctx.emitEvent itself throws, and configurations whose columns are not
\* arrays.)
C4_NeverThrows ==
    /\ (callback = "renderChart" /\ failedEmits = {}) => ~threw
    /\ callback = "getDefaultChartConfig" => ~threw
    /\ (callback = "getQueriesFromChartConfig" /\ ArraysOnly(returned.input)) => ~threw
    /\ (callback = "renderChart" /\ pass.ran /\ FailedPass)
          => (~pass.mounted \/ Count(trace, "RenderError") > 0)

\* C4 amended: failures inside render never leave it, and the failed pass
\* mounts no chart; renderChart throws exactly when ctx.emitEvent throws on
\* RenderError or RenderComplete; getDefaultChartConfig throws exactly when
\* the chart model has no attribute column or no measure column;
\* getQueriesFromChartConfig throws only on a dimension whose columns is not
\* an array.
C4_ThrowsOnlyWhere ==
    /\ callback = "renderChart" =>
          /\ threw <=> (failedEmits \cap {"RenderError", "RenderComplete"} # {})
          /\ (pass.ran /\ FailedPass) => ~pass.mounted
    /\ callback = "getDefaultChartConfig" =>
          (threw <=> (\/ \A i \in 1..Len(returned.input) : returned.input[i].type # "ATTRIBUTE"
                      \/ \A i \in 1..Len(returned.input) : returned.input[i].type # "MEASURE"))
    /\ callback = "getQueriesFromChartConfig" =>
          (threw => \E c \in 1..Len(returned.input) :
                       \E d \in 1..Len(returned.input[c].dimensions) :
                          ~returned.input[c].dimensions[d].columns.array)

\* C4 witness: getDefaultChartConfig was called on columns that include an
\* attribute but no measure, and threw.
C4_Witness ==
    /\ callback = "getDefaultChartConfig" /\ threw
    /\ \E i \in 1..Len(returned.input) : returned.input[i].type = "ATTRIBUTE"

\* the value of an option that the host supplied
Supplied(option, falsy) == option.def /\ option.v # falsy

\* C5 as claimed: the options a pass uses are the values the host supplied
\* for that pass, and each option it did not supply takes its default,
\* whatever earlier passes supplied.  (An empty or zero value is counted here
\* as not supplied.)
C5_SuppliedOrDefault ==
    (callback = "renderChart" /\ pass.ran /\ pass.readProps) =>
        LET vp == pass.model.visualProps
        IN  /\ userNumberFormat = IF Supplied(vp.numberFormat, <<>>) THEN vp.numberFormat.v
                                  ELSE DefaultOptions.userNumberFormat
            /\ numberOfLabels = IF Supplied(vp.numOfLabels, 0) THEN vp.numOfLabels.v
                                ELSE DefaultOptions.numberOfLabels
            /\ gradientColor0 = IF Supplied(vp.gradientColor0, "") THEN vp.gradientColor0.v
                                ELSE DefaultOptions.gradientColor0
            /\ gradientColor50 = IF Supplied(vp.gradientColor50, "") THEN vp.gradientColor50.v
                                 ELSE DefaultOptions.gradientColor50
            /\ gradientColor100 = IF Supplied(vp.gradientColor100, "") THEN vp.gradientColor100.v
                                  ELSE DefaultOptions.gradientColor100

\* C6: a click on a point of the mounted chart calls ctx.emitEvent exactly
\* once, with OpenContextMenu, whose clickedPoint.tuple pairs the id of the
\* first column of dimension 0 with the point's name and the id of the first
\* column of dimension 1 with the point's value; no lifecycle event is
\* emitted.
C6_ClickEmitsContextMenu ==
    callback = "click" =>
        LET dims == chart.config.chartConfig[1].dimensions
            point == chart.series.data[payload.index]
        IN  /\ trace = <<"OpenContextMenu">>
            /\ payload.clickedPoint.tuple =
                  << [columnId |-> dims[1].columns.items[1].id, value |-> point.name],
                     [columnId |-> dims[2].columns.items[1].id, value |-> point.value] >>

\* C6 witness: the second point of a chart rendered with custom gradient
\* colors was clicked.
C6_Witness ==
    /\ callback = "click" /\ payload.clicked /\ payload.index = 2
    /\ chart.colorAxis.minColor # DefaultOptions.gradientColor0

\* two chart models that differ at most in the three gradient color options
SameButGradient(m1, m2) ==
    /\ m1.columns = m2.columns
    /\ m1.config = m2.config
    /\ m1.data = m2.data
    /\ m1.visualProps.numberFormat = m2.visualProps.numberFormat
    /\ m1.visualProps.numOfLabels = m2.visualProps.numOfLabels

\* C7: of two render passes over the same chart model that differ only in
\* gradientColor0/50/100, the series data (every point's name, value,
\* colorValue and tooltipData, in order) is identical, and nothing of the
\* chart configuration differs but the colorAxis colors.
C7_GradientOnlyColorAxis ==
    (prevChart.mounted /\ chart.mounted /\ SameButGradient(prevChart.model, pass.model)) =>
        /\ chart.series.data = prevChart.chart.series.data
        /\ \A part \in (DOMAIN chart) \ {"colorAxis"} : chart[part] = prevChart.chart[part]

\* C7 witness: two consecutive passes over one chart model with different
\* gradient colors, whose charts differ in their color axis.
C7_Witness ==
    /\ prevChart.mounted /\ chart.mounted
    /\ SameButGradient(prevChart.model, pass.model)
    /\ prevChart.model.visualProps # pass.model.visualProps
    /\ chart.colorAxis # prevChart.chart.colorAxis
    /\ Len(chart.series.data) >= 2

\* every abbreviation letter of a formatted value is in upper case
UpperCased(str) == \A i \in 1..Len(str) : str[i] \notin {"k", "m", "b", "t"}

\* C8: numberFormatter(1500, '0.0') is "1.5K" and numberFormatter(2000000,
\* '0.0') is "2.0M"; in general the result is the abbreviated form for the
\* format suffixed by 'a', with the abbreviation letter in upper case.
C8_UpperCaseAbbreviation ==
    fmtDone =>
        /\ (fmtIn = <<Val(FALSE, 15, 2), <<"0", ".", "0">>>>) => fmtOut = <<"1", ".", "5", "K">>
        /\ (fmtIn = <<Val(FALSE, 2, 6), <<"0", ".", "0">>>>) => fmtOut = <<"2", ".", "0", "M">>
        /\ Len(fmtOut) = Len(numeralFormat(fmtIn[1], fmtIn[2] \o <<"a">>))
        /\ UpperCased(fmtOut)

\* a result set whose rows hold a category and a number for every measure
\* column
ValidResultSet(cm) ==
    /\ cm.data.def
    /\ \A r \in 1..Len(cm.data.dataValue) :
          LET row == cm.data.dataValue[r]
          IN  /\ Len(row) = 1 + MeasureCount(cm)
              /\ row[1].t \in {"text", "num", "numstr", "undef"}
              /\ \A i \in 2..Len(row) : row[i].t \in {"num", "numstr"}

\* C9: for every row of a valid result set, with any number of measure
\* columns >= 1, the derived point has name = the category value (or
\* 'Unnamed'), value = the row's value at position 1, colorValue = the value
\* at position 2, a defined number, and one tooltipData entry per measure
\* column, in column order, pairing its name with the row value at i + 1.
C9_PointOfRow ==
    (dmDone /\ HasCategoryColumn(dmIn) /\ MeasureCount(dmIn) >= 1 /\ ValidResultSet(dmIn)) =>
        /\ Len(dmOut.values) = Len(dmIn.data.dataValue)
        /\ \A r \in 1..Len(dmIn.data.dataValue) :
              LET row == dmIn.data.dataValue[r]
                  measures == filterType(dmIn.columns, "MEASURE")
              IN  \E p \in 1..Len(dmOut.values) :
                     /\ dmOut.values[p].name = ExpectedName(row)
                     /\ dmOut.values[p].value = Num(row[2].v)
                     /\ ~dmOut.values[p].colorValue.nan
                     /\ dmOut.values[p].colorValue = parseFloat(At(row, 2))
                     /\ Len(dmOut.values[p].tooltipData) = Len(measures)
                     /\ \A i \in 1..Len(measures) :
                           dmOut.values[p].tooltipData[i] =
                              [columnName |-> measures[i].name, value |-> row[i + 1]]

\* the positions of the chart's points whose data label shows measure lines
LabelledPoints ==
    { i \in 1..Len(chart.series.data) :
        dataLabel(chart, i, numberOfLabels, userNumberFormat).lines # <<>> }

\* C10: in a mounted chart with n points and label count k exactly
\* min(k, n) points show measure lines, namely the first k of the
\* descending-sorted list, every other label showing the name only; and a
\* label count of 0 supplied by the host leaves no point with measure lines.
C10_LabelCount ==
    (callback = "renderChart" /\ pass.ran /\ pass.mounted) =>
        LET n == Len(chart.series.data)
            supplied == pass.model.visualProps.numOfLabels
            k == IF supplied.def THEN supplied.v ELSE numberOfLabels
        IN  /\ LabelledPoints = 1..(IF k < n THEN k ELSE n)
            /\ \A i \in 1..(n - 1) :
                  GreaterOrEqual(chart.series.data[i].value, chart.series.data[i + 1].value)
            /\ \A i \in 1..n : dataLabel(chart, i, numberOfLabels, userNumberFormat).name
                                  = chart.series.data[i].name

\* the columns a dimension holds, whether as an array or as a single column
heldColumns(dimension) == dimension.columns.items

\* the a-th to b-th elements of seq, as far as seq has them
fromTo(seq, a, b) ==
    [i \in 1..((IF b < Len(seq) THEN b ELSE Len(seq)) - a + 1) |-> seq[a + i - 1]]

\* the five dimensions are keyed and filled in order: the first attribute,
\* the 1st measure, the 2nd measure, the 3rd-4th measures, the measures from
\* the 5th on
AssignsInOrder(columns, config) ==
    LET attributeColumns == filterType(columns, "ATTRIBUTE")
        measureColumns == filterType(columns, "MEASURE")
        dims == config[1].dimensions
    IN  /\ Len(config) = 1
        /\ Len(dims) = 5
        /\ [d \in 1..5 |-> dims[d].key]
              = <<"category", "measure", "color axis", "Labels", "Tooltip columns">>
        /\ heldColumns(dims[1]) = <<attributeColumns[1]>>
        /\ heldColumns(dims[2]) = <<measureColumns[1]>>
        /\ heldColumns(dims[3]) = fromTo(measureColumns, 2, 2)
        /\ heldColumns(dims[4]) = fromTo(measureColumns, 3, 4)
        /\ heldColumns(dims[5]) = fromTo(measureColumns, 5, Len(measureColumns))

\* every measure column sits at exactly one place of exactly one dimension
EachMeasureOnce(columns, config) ==
    LET dims == config[1].dimensions
    IN  \A m \in 1..Len(columns) :
          columns[m].type = "MEASURE" =>
            Cardinality({ pos \in (1..Len(dims)) \X (1..Len(columns)) :
                            /\ pos[2] <= Len(heldColumns(dims[pos[1]]))
                            /\ heldColumns(dims[pos[1]])[pos[2]] = columns[m] }) = 1

\* the maxColumnCount the editor definition states for a column section
maxColumnCountOf(key) ==
    LET sections == chartConfigEditorDefinition[1].columnSections
        s == CHOOSE i \in 1..Len(sections) : sections[i].key = key
    IN  sections[s].maxColumnCount[1]

WithinLabelLimit(config) ==
    Len(heldColumns(config[1].dimensions[4])) <= maxColumnCountOf("Labels")

WithinTooltipLimit(config) ==
    Len(heldColumns(config[1].dimensions[5])) <= maxColumnCountOf("tooltips")

\* C11: given at least one attribute and one measure column,
\* getDefaultChartConfig returns a single config whose five dimensions hold
\* the first attribute, the 1st measure, the 2nd measure, the 3rd-4th
\* measures and the remaining measures, every measure column is assigned to
\* exactly one dimension, 'Labels' holds at most 2 columns and the tooltip
\* dimension at most 5, for every number of measure columns.
C11_DefaultChartConfig ==
    (cfgDone /\ ~cfgOut.threw) =>
        /\ AssignsInOrder(cfgIn, cfgOut.value)
        /\ EachMeasureOnce(cfgIn, cfgOut.value)
        /\ WithinLabelLimit(cfgOut.value)
        /\ WithinTooltipLimit(cfgOut.value)

\* what of C11 holds for every number of measure columns: the assignment,
\* the partition of the measures and the 'Labels' limit
C11_AllButTooltipLimit ==
    (cfgDone /\ ~cfgOut.threw) =>
        /\ AssignsInOrder(cfgIn, cfgOut.value)
        /\ EachMeasureOnce(cfgIn, cfgOut.value)
        /\ WithinLabelLimit(cfgOut.value)

\* the failures that stop render before it reads the visual properties: an
\* undefined chart model, no or empty data, missing columns, undefined
\* visual properties
AbortsBeforeRead ==
    \/ ~pass.model.def
    \/ ~pass.model.data.def
    \/ pass.model.data.dataValue = <<>>
    \/ ~HasCategoryColumn(pass.model)
    \/ ~HasMeasureColumn(pass.model)
    \/ ~pass.model.visualProps.def

\* C12: as long as ctx.emitEvent does not throw, no renderChart invocation
\* of any sequence emits RenderError or throws; every failure inside render
\* (undefined chart model, empty data, missing visual properties, missing
\* columns, an exception from the charting library) ends with the pass
\* mounting no chart and the events RenderStart, RenderComplete around the
\* call of render; a pass that aborts before reading the visual properties
\* leaves the module-level options as they were; and a pass that mounts no
\* chart leaves the chart element as it was.
C12_FailuresAreSilent ==
    /\ [](( callback = "renderChart" /\ failedEmits = {} ) =>
            /\ pass.ran /\ ~threw
            /\ Count(trace, "RenderError") = 0
            /\ trace = <<"RenderStart", "render", "RenderComplete">>
            /\ (AbortsBeforeRead \/ pass.chartThrew) => ~pass.mounted
            /\ AbortsBeforeRead =>
                  (~pass.readProps /\ ~pass.chartCalled /\ CurrentOptions = pass.before))
    /\ [][ ( callback' = "renderChart" /\ pass'.ran /\ ~pass'.mounted ) => chart' = chart ]_vars

\* C12 witness: after a pass that changed the options and mounted a chart,
\* a pass without visual properties failed silently.
C12_Witness ==
    /\ callback = "renderChart" /\ failedEmits = {} /\ pass.ran
    /\ pass.model.def /\ ~pass.model.visualProps.def
    /\ pass.values # <<>>
    /\ pass.before # DefaultOptions
    /\ chart.mounted /\ ~pass.mounted

====
